---- MODULE Spec2Model ----
(***************************************************************************)
(* Model of rio_tiler/reader.py: read, part, preview and point.            *)
(*                                                                         *)
(* Python floats are IEEE-754 binary64.  The sizing code of part and       *)
(* preview divides and multiplies with them before math.ceil, so the       *)
(* model carries a small exact soft-float: a positive float is a record    *)
(* [m |-> 53-bit mantissa, e |-> exponent] of value m * 2^e, and every     *)
(* operation rounds to nearest, ties to even, as the hardware does.        *)
(* Mantissas do not fit the model checker's integers, so big naturals are  *)
(* sequences of 14-bit limbs, least significant first, without leading     *)
(* (high) zero limbs.                                                      *)
(***************************************************************************)
EXTENDS Integers, Sequences, FiniteSets, TLC

\* Python's None for an optional number (every real value is >= 0)
None == -1

\* `if x:` and `x or y` for an optional number: None and 0 are both falsy
Truthy(x) == x # None /\ x # 0
OrElse(x, y) == IF Truthy(x) THEN x ELSE y

\* dict: a function from keys to values; d.update(u) lets u win
EmptyDict == [k \in {} |-> 0]
Update(d, u) == u @@ d
DictTruthy(d) == DOMAIN d # {}

Max(a, b) == IF a >= b THEN a ELSE b
Min(a, b) == IF a <= b THEN a ELSE b

----------------------------------------------------------------------------
(* Big naturals as limb sequences (index 1 = least significant limb).      *)

LimbBits == 14
Base == 16384

RECURSIVE Pow2(_)
Pow2(k) == IF k <= 0 THEN 1 ELSE 2 * Pow2(k - 1)

RECURSIVE BitLen(_)
BitLen(n) == IF n <= 0 THEN 0 ELSE 1 + BitLen(n \div 2)

RECURSIVE BigNorm(_)
BigNorm(s) ==
    IF s = <<>> THEN <<>>
    ELSE IF s[Len(s)] = 0 THEN BigNorm(SubSeq(s, 1, Len(s) - 1))
    ELSE s

RECURSIVE BigFromNat(_)
BigFromNat(n) ==
    IF n <= 0 THEN <<>> ELSE <<n % Base>> \o BigFromNat(n \div Base)

RECURSIVE BigToNat(_)
BigToNat(s) ==
    IF s = <<>> THEN 0 ELSE s[1] + Base * BigToNat(Tail(s))

LimbAt(s, i) == IF i <= Len(s) THEN s[i] ELSE 0

BigBitLen(s) ==
    IF s = <<>> THEN 0 ELSE LimbBits * (Len(s) - 1) + BitLen(s[Len(s)])

\* bit p (0 = least significant) of s
BigBit(s, p) == (LimbAt(s, (p \div LimbBits) + 1) \div Pow2(p % LimbBits)) % 2

RECURSIVE BigAddFrom(_, _, _, _, _)
BigAddFrom(a, b, i, carry, acc) ==
    IF i > Max(Len(a), Len(b))
    THEN IF carry > 0 THEN Append(acc, carry) ELSE acc
    ELSE LET t == LimbAt(a, i) + LimbAt(b, i) + carry
         IN  BigAddFrom(a, b, i + 1, t \div Base, Append(acc, t % Base))

BigAdd(a, b) == BigAddFrom(a, b, 1, 0, <<>>)

\* a - b, for a >= b
RECURSIVE BigSubFrom(_, _, _, _, _)
BigSubFrom(a, b, i, borrow, acc) ==
    IF i > Len(a) THEN BigNorm(acc)
    ELSE LET t == LimbAt(a, i) - LimbAt(b, i) - borrow
         IN  IF t < 0
             THEN BigSubFrom(a, b, i + 1, 1, Append(acc, t + Base))
             ELSE BigSubFrom(a, b, i + 1, 0, Append(acc, t))

BigSub(a, b) == BigSubFrom(a, b, 1, 0, <<>>)

\* a >= b, comparing from the most significant limb down
RECURSIVE BigGeqFrom(_, _, _)
BigGeqFrom(a, b, i) ==
    IF i = 0 THEN TRUE
    ELSE IF a[i] # b[i] THEN a[i] > b[i]
    ELSE BigGeqFrom(a, b, i - 1)

BigGeq(a, b) ==
    IF Len(a) # Len(b) THEN Len(a) > Len(b) ELSE BigGeqFrom(a, b, Len(a))

\* a * n, for a small n (n <= 2 * Base)
RECURSIVE BigMulFrom(_, _, _, _, _)
BigMulFrom(a, n, i, carry, acc) ==
    IF i > Len(a)
    THEN BigNorm(acc \o BigFromNat(carry))
    ELSE LET t == a[i] * n + carry
         IN  BigMulFrom(a, n, i + 1, t \div Base, Append(acc, t % Base))

BigMulSmall(a, n) == IF n <= 0 THEN <<>> ELSE BigMulFrom(a, n, 1, 0, <<>>)

\* floor(a / n) for a small n, from the most significant limb down
RECURSIVE BigDivSmallFrom(_, _, _, _, _)
BigDivSmallFrom(a, n, i, rem, acc) ==
    IF i = 0 THEN [q |-> BigNorm(acc), r |-> rem]
    ELSE LET t == rem * Base + a[i]
         IN  BigDivSmallFrom(a, n, i - 1, t % n, <<t \div n>> \o acc)

BigDivSmall(a, n) == BigDivSmallFrom(a, n, Len(a), 0, <<>>)

RECURSIVE BigZeroLimbs(_)
BigZeroLimbs(k) == IF k <= 0 THEN <<>> ELSE <<0>> \o BigZeroLimbs(k - 1)

\* a * 2^k
BigShl(a, k) ==
    IF a = <<>> THEN <<>>
    ELSE IF k = 0 THEN a
    ELSE BigZeroLimbs(k \div LimbBits) \o BigMulSmall(a, Pow2(k % LimbBits))

\* floor(a / 2^k)
BigShr(a, k) ==
    IF k \div LimbBits >= Len(a) THEN <<>>
    ELSE BigDivSmall(SubSeq(a, (k \div LimbBits) + 1, Len(a)),
                     Pow2(k % LimbBits)).q

\* a mod 2^k is not zero
BigLowBitsSet(a, k) == BigShl(BigShr(a, k), k) # a

\* Long division, one bit of the dividend at a time from bit p down to bit
\* 0: [q, r] with (r0 * 2^(p+1) + low bits of n) = q * d + r.  The conjunct
\* on q2 only makes the evaluation of the quotient strict.
RECURSIVE BigDivFrom(_, _, _, _, _)
RECURSIVE BigDivStep(_, _, _, _, _)
BigDivStep(n, d, p, q2, r2) ==
    IF Len(q2) >= 0 /\ BigGeq(r2, d)
    THEN BigDivFrom(n, d, p - 1, BigAdd(q2, <<1>>), BigSub(r2, d))
    ELSE BigDivFrom(n, d, p - 1, q2, r2)

BigDivFrom(n, d, p, q, r) ==
    IF p < 0 THEN [q |-> q, r |-> r]
    ELSE BigDivStep(n, d, p, BigMulSmall(q, 2),
                    BigAdd(BigMulSmall(r, 2), BigFromNat(BigBit(n, p))))

\* the high bits of n that cannot reach d seed the remainder
BigLongDiv(n, d, steps) == BigDivFrom(n, d, steps - 1, <<>>, BigShr(n, steps))

BigSmallDivResult(qr) == [q |-> qr.q, r |-> BigFromNat(qr.r)]

BigShiftedDivResult(qr, limb) == [q |-> qr.q, r |-> BigNorm(<<limb>> \o qr.r)]

\* [q, r] with n = q * d + r and r < d.  A one-limb divisor is divided
\* limb by limb, a zero low limb of the divisor is cancelled, and the rest
\* is long division.
RECURSIVE BigDivMod(_, _)
BigDivMod(n, d) ==
    IF Len(d) = 1 THEN BigSmallDivResult(BigDivSmall(n, d[1]))
    ELSE IF d[1] = 0 THEN BigShiftedDivResult(BigDivMod(Tail(n), Tail(d)), n[1])
    ELSE BigLongDiv(n, d, Max(BigBitLen(n) - BigBitLen(d) + 1, 0))

----------------------------------------------------------------------------
(* IEEE-754 binary64, round to nearest, ties to even.                      *)

MantBits == 53

FlZero == [m |-> <<>>, e |-> 0]

\* a carry out of the 53 bits renormalizes the mantissa
FlNormalize(m, e) ==
    IF BigBitLen(m) > MantBits
    THEN [m |-> BigShr(m, 1), e |-> e + 1]
    ELSE [m |-> m, e |-> e]

\* kept: the 53 high bits of the quotient; low: the bits dropped; sticky:
\* the division left a remainder
FlRoundUp(kept, low, half, sticky, e) ==
    IF low > half \/ (low = half /\ (sticky \/ kept[1] % 2 = 1))
    THEN FlNormalize(BigAdd(kept, <<1>>), e)
    ELSE FlNormalize(kept, e)

FlRoundDrop(qr, s, drop) ==
    FlRoundUp(BigShr(qr.q, drop), qr.q[1] % Pow2(drop), Pow2(drop - 1),
              qr.r # <<>>, drop - s)

FlRoundQuot(qr, s) == FlRoundDrop(qr, s, BigBitLen(qr.q) - MantBits)

\* The float nearest to the exact quotient n / d of two big naturals > 0.
\* The dividend is scaled by 2^s so that the integer quotient has 54 or 55
\* bits; the bits beyond the 53rd and the remainder decide the rounding.
FlRoundScaled(n, d, s) ==
    FlRoundQuot(BigDivMod(BigShl(n, Max(s, 0)), BigShl(d, Max(-s, 0))), s)

FlRound(n, d) ==
    IF n = <<>> \/ d = <<>> THEN FlZero
    ELSE FlRoundScaled(n, d, (MantBits + 1) + BigBitLen(d) - BigBitLen(n))

\* int / int (Python true division of two positive ints)
FlDivInts(a, b) == FlRound(BigFromNat(a), BigFromNat(b))

\* int * float: the int converts exactly, the product is rounded once
FlIntMul(n, r) ==
    FlRound(BigShl(BigMulSmall(r.m, n), Max(r.e, 0)), BigShl(<<1>>, Max(-r.e, 0)))

\* int / float
FlIntDiv(n, r) ==
    FlRound(BigShl(BigFromNat(n), Max(-r.e, 0)), BigShl(r.m, Max(r.e, 0)))

\* x < y, for floats x, y >= 0
FlLess(x, y) ==
    IF y.m = <<>> THEN FALSE
    ELSE IF x.m = <<>> THEN TRUE
    ELSE IF x.e # y.e THEN x.e < y.e
    ELSE ~BigGeq(x.m, y.m)

\* r > 1.0, for a positive float r
FlGtOne(r) ==
    \/ r.e > -(MantBits - 1)
    \/ r.e = -(MantBits - 1) /\ BigLowBitsSet(r.m, MantBits - 1)

\* math.ceil of a positive float whose value fits a small integer
Ceil(r) ==
    IF r.e >= 0 THEN BigToNat(BigShl(r.m, r.e))
    ELSE BigToNat(BigShr(r.m, -r.e))
         + (IF BigLowBitsSet(r.m, -r.e) THEN 1 ELSE 0)

----------------------------------------------------------------------------
(* Collaborators: coordinate transforms, the dataset and the warped view.  *)

NoCRS == ""

\* Easting/northing offset of each CRS: the model's reprojection between
\* two CRS is the translation by the difference of their offsets.
CRSOffset(crs) == IF crs = "B" THEN 50 ELSE 0

transform_coords(src_crs, dst_crs, x) == x - CRSOffset(src_crs) + CRSOffset(dst_crs)

transform_bounds(src_crs, dst_crs, b) ==
    [i \in 1..4 |-> transform_coords(src_crs, dst_crs, b[i])]

\* utils.has_alpha_band / utils.non_alpha_indexes: the alpha band, when the
\* dataset has one, is its last band.
has_alpha_band(d) == d.alpha

non_alpha_indexes(d) ==
    IF d.alpha THEN [i \in 1..(d.count - 1) |-> i] ELSE [i \in 1..d.count |-> i]

dataset_indexes(d) == [i \in 1..d.count |-> i]

\* utils.get_vrt_transform: the grid covering the bounds, at the requested
\* size when both height and width are given, else at the dataset's pixel
\* size.  The transform keeps the origin, the pixel size as span / size and
\* a translation in pixels.
get_vrt_transform(d, bounds, height, width) ==
    LET dx == bounds[3] - bounds[1]
        dy == bounds[4] - bounds[2]
        w  == IF Truthy(height) /\ Truthy(width) THEN width
              ELSE Max(1, dx \div d.res)
        h  == IF Truthy(height) /\ Truthy(width) THEN height
              ELSE Max(1, dy \div d.res)
    IN  [transform |-> [x0 |-> bounds[1], y0 |-> bounds[4],
                        span |-> <<dx, dy>>, size |-> <<w, h>>, shift |-> 0],
         width |-> w, height |-> h]

\* Affine.translation(-padding, -padding) composed on the right
TranslateTransform(t, padding) == [t EXCEPT !.shift = @ + padding]

\* ColorInterp.alpha in vrt.colorinterp: the view shows an alpha band when
\* the source has one or when the view was asked to add one.
ViewHasAlpha(d, params) ==
    d.alpha \/ ("add_alpha" \in DOMAIN params /\ params.add_alpha = TRUE)

----------------------------------------------------------------------------
(* 4.1 the parameters of the warped view (read and point)                  *)

DefaultVrtParams(resampling_method) ==
    [add_alpha |-> TRUE, resampling |-> resampling_method]

NodataUpdate_keeps_alpha(nodata) ==
    [nodata |-> nodata, src_nodata |-> nodata]

NodataUpdate(nodata) ==
    [nodata |-> nodata, add_alpha |-> FALSE, src_nodata |-> nodata]

AlphaUpdate == [add_alpha |-> FALSE]

EffectiveNodata(d, nodata) == IF nodata # None THEN nodata ELSE d.nodata

\* the parameters before the caller's vrt_options are merged
ComputedVrtParams(d, nodata, resampling_method) ==
    LET p0 == DefaultVrtParams(resampling_method)
        nd == EffectiveNodata(d, nodata)
        p1 == IF nd # None THEN Update(p0, NodataUpdate(nd)) ELSE p0
    IN  IF has_alpha_band(d) THEN Update(p1, AlphaUpdate) ELSE p1

MergeVrtOptions(params, vrt_options) ==
    IF DictTruthy(vrt_options) THEN Update(params, vrt_options) ELSE params

BuildVrtParams(d, nodata, resampling_method, vrt_options) ==
    MergeVrtOptions(ComputedVrtParams(d, nodata, resampling_method), vrt_options)

----------------------------------------------------------------------------
(* part: overlap, sizing, padding                                          *)

\* cover_ratio as the code computes it: a float quotient of the products
CoverOverlap(src_bounds, bounds) ==
    LET x_overlap == Max(0, Min(src_bounds[3], bounds[3]) - Max(src_bounds[1], bounds[1]))
        y_overlap == Max(0, Min(src_bounds[4], bounds[4]) - Max(src_bounds[2], bounds[2]))
    IN  x_overlap * y_overlap

BoundsArea(bounds) == (bounds[3] - bounds[1]) * (bounds[4] - bounds[2])

cover_ratio(src_bounds, bounds) ==
    FlDivInts(CoverOverlap(src_bounds, bounds), BoundsArea(bounds))

\* the caller's minimum_overlap literal num/den as a float
OverlapThreshold(minimum_overlap) ==
    FlDivInts(minimum_overlap[1], minimum_overlap[2])

TileOutside_or_equal(ratio, threshold) == ~FlLess(threshold, ratio)

\* `if cover_ratio < minimum_overlap: raise TileOutsideBounds`
TileOutside(ratio, threshold) == FlLess(ratio, threshold)

\* the max_size clamp shared by part and preview:
\*   ratio = height / width; the longer axis becomes max_size and the other
\*   one math.ceil of the float product or quotient
ClampWithRatio(ratio, max_size) ==
    IF FlGtOne(ratio)
    THEN [height |-> max_size, width |-> Ceil(FlIntDiv(max_size, ratio))]
    ELSE [height |-> Ceil(FlIntMul(max_size, ratio)), width |-> max_size]

ClampToMaxSize(height, width, max_size) ==
    ClampWithRatio(FlDivInts(height, width), max_size)

\* lines 203-204: `height or vrt_height`, `width or vrt_width`
PartOutputOr(clamp, size, vrt_width, vrt_height) ==
    [clamped |-> clamp,
     out_height |-> OrElse(size.height, vrt_height),
     out_width |-> OrElse(size.width, vrt_width)]

\* lines 193-201: the clamp runs unless BOTH height and width are given
PartClamps(height, width, max_size, vrt_width, vrt_height) ==
    /\ Truthy(max_size)
    /\ ~(Truthy(width) /\ Truthy(height))
    /\ Max(vrt_width, vrt_height) > max_size

PartOutputSize(height, width, max_size, vrt_width, vrt_height) ==
    IF PartClamps(height, width, max_size, vrt_width, vrt_height)
    THEN PartOutputOr(TRUE, ClampToMaxSize(vrt_height, vrt_width, max_size),
                      vrt_width, vrt_height)
    ELSE PartOutputOr(FALSE, [height |-> height, width |-> width],
                      vrt_width, vrt_height)

\* lines 258-268
PreviewOutputSize(d, height, width, max_size) ==
    IF ~Truthy(height) /\ ~Truthy(width)
    THEN IF Max(d.height, d.width) < max_size
         THEN [height |-> d.height, width |-> d.width]
         ELSE ClampToMaxSize(d.height, d.width, max_size)
    ELSE [height |-> height, width |-> width]

NoWindow == [col_off |-> None, row_off |-> None, width |-> None, height |-> None]

\* lines 205-216: the padded view and the window inside it
PartPadding(padding, aligned, g) ==
    IF padding > 0 /\ ~aligned
    THEN [transform |-> TranslateTransform(g.transform, padding),
          width |-> g.width + 2 * padding,
          height |-> g.height + 2 * padding,
          window |-> [col_off |-> padding, row_off |-> padding,
                      width |-> g.width, height |-> g.height]]
    ELSE [transform |-> g.transform, width |-> g.width, height |-> g.height,
          window |-> [col_off |-> 0, row_off |-> 0,
                      width |-> g.width, height |-> g.height]]

\* lines 219-226
PartVrtOptions(vrt_options, dst_crs, v) ==
    Update(vrt_options,
           [crs |-> dst_crs, transform |-> v.transform,
            width |-> v.width, height |-> v.height])

----------------------------------------------------------------------------
(* point: the bounds check and the mask                                    *)

InsideBounds_closed(b, lon, lat) ==
    (b[1] <= lon /\ lon <= b[3]) /\ (b[2] <= lat /\ lat <= b[4])

\* lines 311-314: strictly inside on both axes
InsideBounds(b, lon, lat) ==
    (b[1] < lon /\ lon < b[3]) /\ (b[2] < lat /\ lat < b[4])

\* line 338: values.mask is numpy's mask, TRUE where the sample is masked
\* out (invalid)
PointMask(values_mask, masked) ==
    IF masked
    THEN [i \in DOMAIN values_mask |-> IF values_mask[i] THEN 255 ELSE 0]
    ELSE [i \in DOMAIN values_mask |-> 0]

----------------------------------------------------------------------------
(* read: mask and data post-processing                                     *)

\* data[-1].astype("uint8")
AsUint8(a) == [i \in DOMAIN a |-> a[i] % 256]

Binarize_skipped(m) == m

\* numpy.where(mask != 0, 255, 0)
Binarize(m) == [i \in DOMAIN m |-> IF m[i] # 0 THEN 255 ELSE 0]

\* data * scales[0] + offsets[0]
Unscale(d, a) == [i \in DOMAIN a |-> a[i] * d.scale + d.offset]

\* the caller's post_process callables the model draws from
PostProcessData(pp, data) ==
    IF pp = "double" THEN [i \in DOMAIN data |-> 2 * data[i]] ELSE data

PostProcessMask(pp, m) ==
    IF pp = "halve_mask" THEN [i \in DOMAIN m |-> m[i] \div 2] ELSE m

----------------------------------------------------------------------------
(* The state.  One call runs at a time (section 5: single-threaded,        *)
(* blocking); pc is the place the running call has reached.                *)

VARIABLES
    ds,           \* the dataset handle the caller owns
    caller_opts,  \* the vrt_options mapping the caller keeps between calls
    pc,           \* "idle", a place inside read / point, "returned", "raised"
    call,         \* [op, args]: the entry point called and its arguments
    loc,          \* locals of part worth observing (bounds, grid, clamp)
    rd,           \* the arguments read / point work with after the preamble
    vrt_params,   \* the parameters handed to WarpedVRT
    raw,          \* what the view returned for the mask (alpha band,
                  \* dataset mask, or the sample's numpy mask)
    data,         \* the pixel or point values
    mask,         \* the mask
    result,       \* the returned value
    error,        \* the exception raised, "" when none
    warns,        \* warnings emitted by the running call
    open_views,   \* warped views currently open
    made_views,   \* warped views constructed by the running call
    io_calls      \* read / dataset_mask / sample calls of the running call

vars == <<ds, caller_opts, pc, call, loc, rd, vrt_params, raw, data, mask,
          result, error, warns, open_views, made_views, io_calls>>

NoArray == <<>>
NoResult == [data |-> NoArray, mask |-> NoArray]
NoCall == [op |-> "none", args |-> [x |-> None]]
NoLocals == [bounds |-> <<0, 0, 0, 0>>, src_bounds |-> <<0, 0, 0, 0>>,
             dst_crs |-> NoCRS, vrt_width |-> None, vrt_height |-> None,
             clamped |-> FALSE]
NoFrame == [height |-> None, width |-> None, window |-> NoWindow,
            indexes |-> <<>>, force_binary_mask |-> FALSE, unscale |-> FALSE,
            post_process |-> "none", masked |-> FALSE,
            lon |-> None, lat |-> None]

Close_leaks(n) == n

\* WarpedVRT.__exit__: the `with` statement closes the view on every exit
Close(n) == n - 1

\* a call starts with nothing read, nothing raised
StartCall ==
    /\ pc = "idle"
    /\ raw' = NoArray /\ data' = NoArray /\ mask' = NoArray
    /\ result' = NoResult

\* lines 58-81: the preamble of read, up to the construction of the view
EnterRead(height, width, window, kw, vrt_options, warned) ==
    LET indexes == IF kw.indexes = <<>> THEN non_alpha_indexes(ds) ELSE kw.indexes
        alpha_removed == kw.indexes = <<>> /\ indexes # dataset_indexes(ds)
    IN  /\ rd' = [NoFrame EXCEPT !.height = height, !.width = width,
                                 !.window = window, !.indexes = indexes,
                                 !.force_binary_mask = kw.force_binary_mask,
                                 !.unscale = kw.unscale,
                                 !.post_process = kw.post_process]
        /\ vrt_params' = BuildVrtParams(ds, kw.nodata, kw.resampling_method,
                                        vrt_options)
        /\ warns' = warned \cup (IF alpha_removed THEN {"AlphaBandWarning"} ELSE {})
        /\ pc' = "WarpedVRT"
        /\ error' = ""
        /\ UNCHANGED <<made_views, io_calls>>

RaiseEarly_after_reading(exc) ==
    /\ pc' = "raised" /\ error' = exc
    /\ rd' = NoFrame /\ vrt_params' = EmptyDict
    /\ made_views' = made_views + 1 /\ io_calls' = io_calls + 1

\* lines 183 and 315: the exception leaves the call before any view is
\* built and before anything is read
RaiseEarly(exc) ==
    /\ pc' = "raised" /\ error' = exc
    /\ rd' = NoFrame /\ vrt_params' = EmptyDict
    /\ UNCHANGED <<made_views, io_calls>>

----------------------------------------------------------------------------
(* The entry points                                                        *)

CallRead(a) ==
    /\ StartCall
    /\ call' = [op |-> "read", args |-> a]
    /\ loc' = NoLocals
    /\ EnterRead(a.height, a.width, NoWindow, a.kw, a.vrt_options, {})
    /\ UNCHANGED <<ds, caller_opts, open_views>>

\* a.shared: the caller passes the mapping it keeps (caller_opts) instead
\* of a temporary one; `vrt_options or {}` keeps a non-empty mapping, and
\* update() then writes into the caller's object.
CallPart(a) ==
    LET dst_crs == IF a.dst_crs = NoCRS THEN ds.crs ELSE a.dst_crs
        warned  == IF Truthy(a.max_size) /\ Truthy(a.width) /\ Truthy(a.height)
                   THEN {"UserWarning"} ELSE {}
        bounds  == IF a.bounds_crs # NoCRS
                   THEN transform_bounds(a.bounds_crs, dst_crs, a.bounds)
                   ELSE a.bounds
        src_bounds == transform_bounds(ds.crs, dst_crs, ds.bounds)
        outside == /\ Truthy(a.minimum_overlap[1])
                   /\ TileOutside(cover_ratio(src_bounds, bounds),
                                  OverlapThreshold(a.minimum_overlap))
        g       == get_vrt_transform(ds, bounds, a.height, a.width)
        sz      == PartOutputSize(a.height, a.width, a.max_size, g.width, g.height)
        v       == PartPadding(a.padding, a.aligned, g)
        passed  == IF a.shared THEN caller_opts ELSE a.vrt_options
        opts    == PartVrtOptions(passed, dst_crs, v)
    IN  /\ StartCall
        /\ call' = [op |-> "part", args |-> a]
        /\ IF outside
           THEN /\ RaiseEarly("TileOutsideBounds")
                /\ loc' = [NoLocals EXCEPT !.bounds = bounds,
                                           !.src_bounds = src_bounds,
                                           !.dst_crs = dst_crs]
                /\ warns' = warned
                /\ UNCHANGED caller_opts
           ELSE /\ loc' = [bounds |-> bounds, src_bounds |-> src_bounds,
                           dst_crs |-> dst_crs, vrt_width |-> g.width,
                           vrt_height |-> g.height, clamped |-> sz.clamped]
                /\ EnterRead(sz.out_height, sz.out_width, v.window, a.kw,
                             opts, warned)
                /\ caller_opts' = IF a.shared /\ DictTruthy(caller_opts)
                                  THEN opts ELSE caller_opts
        /\ UNCHANGED <<ds, open_views>>

CallPreview(a) ==
    LET sz == PreviewOutputSize(ds, a.height, a.width, a.max_size)
    IN  /\ StartCall
        /\ call' = [op |-> "preview", args |-> a]
        /\ loc' = NoLocals
        /\ EnterRead(sz.height, sz.width, NoWindow, a.kw, a.vrt_options, {})
        /\ UNCHANGED <<ds, caller_opts, open_views>>

CallPoint(a) ==
    LET lon == transform_coords(a.coord_crs, ds.crs, a.coordinates[1])
        lat == transform_coords(a.coord_crs, ds.crs, a.coordinates[2])
        indexes == IF a.indexes = <<>> THEN dataset_indexes(ds) ELSE a.indexes
    IN  /\ StartCall
        /\ call' = [op |-> "point", args |-> a]
        /\ loc' = NoLocals
        /\ warns' = {}
        /\ IF ~InsideBounds(ds.bounds, lon, lat)
           THEN RaiseEarly("PointOutsideBounds")
           ELSE /\ rd' = [NoFrame EXCEPT !.indexes = indexes,
                                         !.masked = a.masked,
                                         !.unscale = a.unscale,
                                         !.post_process = a.post_process,
                                         !.lon = lon, !.lat = lat]
                /\ vrt_params' = BuildVrtParams(ds, a.nodata,
                                                a.resampling_method,
                                                a.vrt_options)
                /\ pc' = "point.WarpedVRT"
                /\ error' = ""
                /\ UNCHANGED <<made_views, io_calls>>
        /\ UNCHANGED <<ds, caller_opts, open_views>>

----------------------------------------------------------------------------
(* read, from the construction of the view on (lines 83-121)               *)

\* the view failed or a callback raised: the exception leaves the call
Fail(exc) ==
    /\ pc' = "raised" /\ error' = exc

\* line 83: WarpedVRT(src_dst, **vrt_params)
OpenView ==
    /\ pc = "WarpedVRT"
    /\ \E ok \in BOOLEAN :
         IF ok
         THEN /\ open_views' = open_views + 1
              /\ made_views' = made_views + 1
              /\ pc' = "vrt.read"
              /\ UNCHANGED error
         ELSE /\ Fail("CollaboratorFailure")
              /\ UNCHANGED <<open_views, made_views>>
    /\ UNCHANGED <<ds, caller_opts, call, loc, rd, vrt_params, raw, data, mask,
                   result, warns, io_calls>>

\* the pixel values of the requested bands, one pixel per entry
PixelData(n) == [i \in 1..n |-> 4 + i]

\* lines 84-103: the windowed read; with an alpha band in the view the last
\* band read is the mask
ReadBands(alphas) ==
    /\ pc = "vrt.read"
    /\ io_calls' = io_calls + 1
    /\ \E ok \in BOOLEAN, alpha \in alphas :
         IF ~ok
         THEN /\ Fail("CollaboratorFailure")
              /\ open_views' = Close(open_views)
              /\ UNCHANGED <<raw, data, mask>>
         ELSE IF ViewHasAlpha(ds, vrt_params)
         THEN /\ data' = PixelData(Len(alpha))
              /\ raw' = alpha
              /\ mask' = AsUint8(alpha)
              /\ pc' = "in_view"
              /\ UNCHANGED <<error, open_views>>
         ELSE /\ data' = PixelData(Len(alpha))
              /\ pc' = "vrt.dataset_mask"
              /\ UNCHANGED <<raw, mask, error, open_views>>
    /\ UNCHANGED <<ds, caller_opts, call, loc, rd, vrt_params, result, warns,
                   made_views>>

\* lines 104-108: vrt.dataset_mask
DatasetMask(masks) ==
    /\ pc = "vrt.dataset_mask"
    /\ io_calls' = io_calls + 1
    /\ \E ok \in BOOLEAN, m \in masks :
         IF ok
         THEN /\ raw' = m /\ mask' = m
              /\ pc' = "in_view"
              /\ UNCHANGED <<error, open_views>>
         ELSE /\ Fail("CollaboratorFailure")
              /\ open_views' = Close(open_views)
              /\ UNCHANGED <<raw, mask>>
    /\ UNCHANGED <<ds, caller_opts, call, loc, rd, vrt_params, data, result,
                   warns, made_views>>

\* lines 110-116 and the end of the `with` block: binarize, unscale, close
FinishView ==
    /\ pc = "in_view"
    /\ open_views' = Close(open_views)
    /\ mask' = IF rd.force_binary_mask THEN Binarize(mask) ELSE mask
    /\ \E ok \in BOOLEAN :
         IF rd.unscale /\ ~ok
         THEN /\ Fail("CollaboratorFailure")
              /\ UNCHANGED data
         ELSE /\ data' = IF rd.unscale THEN Unscale(ds, data) ELSE data
              /\ pc' = "post_process"
              /\ UNCHANGED error
    /\ UNCHANGED <<ds, caller_opts, call, loc, rd, vrt_params, raw, result,
                   warns, made_views, io_calls>>

\* lines 118-121: post_process, when given, then return
ReadReturn ==
    /\ pc = "post_process"
    /\ \E ok \in BOOLEAN :
         IF rd.post_process # "none" /\ ~ok
         THEN /\ Fail("PostProcessError")
              /\ UNCHANGED result
         ELSE /\ result' = [data |-> PostProcessData(rd.post_process, data),
                            mask |-> PostProcessMask(rd.post_process, mask)]
              /\ pc' = "returned"
              /\ UNCHANGED error
    /\ UNCHANGED <<ds, caller_opts, call, loc, rd, vrt_params, raw, data, mask,
                   warns, open_views, made_views, io_calls>>

----------------------------------------------------------------------------
(* point, from the construction of the view on (lines 333-352)             *)

\* line 333
PointOpenView ==
    /\ pc = "point.WarpedVRT"
    /\ \E ok \in BOOLEAN :
         IF ok
         THEN /\ open_views' = open_views + 1
              /\ made_views' = made_views + 1
              /\ pc' = "vrt.sample"
              /\ UNCHANGED error
         ELSE /\ Fail("CollaboratorFailure")
              /\ UNCHANGED <<open_views, made_views>>
    /\ UNCHANGED <<ds, caller_opts, call, loc, rd, vrt_params, raw, data, mask,
                   result, warns, io_calls>>

\* lines 334-347 and the end of the `with` block: values_mask is the numpy
\* mask of the sample, one entry per band (all FALSE when masked is off)
Sample ==
    /\ pc = "vrt.sample"
    /\ io_calls' = io_calls + 1
    /\ open_views' = Close(open_views)
    /\ \E ok \in BOOLEAN, values_mask \in [DOMAIN rd.indexes -> BOOLEAN] :
         IF ~ok
         THEN /\ Fail("CollaboratorFailure")
              /\ UNCHANGED <<raw, data, mask>>
         ELSE /\ rd.masked \/ \A i \in DOMAIN values_mask : ~values_mask[i]
              /\ raw' = values_mask
              /\ mask' = PointMask(values_mask, rd.masked)
              /\ data' = IF rd.unscale
                         THEN Unscale(ds, PixelData(Len(rd.indexes)))
                         ELSE PixelData(Len(rd.indexes))
              /\ pc' = "point.post_process"
              /\ UNCHANGED error
    /\ UNCHANGED <<ds, caller_opts, call, loc, rd, vrt_params, result, warns,
                   made_views>>

\* lines 349-352: post_process receives (point_values, mask); only the
\* values are returned
PointReturn ==
    /\ pc = "point.post_process"
    /\ \E ok \in BOOLEAN :
         IF rd.post_process # "none" /\ ~ok
         THEN /\ Fail("PostProcessError")
              /\ UNCHANGED result
         ELSE /\ result' = [data |-> PostProcessData(rd.post_process, data),
                            mask |-> NoArray]
              /\ pc' = "returned"
              /\ UNCHANGED error
    /\ UNCHANGED <<ds, caller_opts, call, loc, rd, vrt_params, raw, data, mask,
                   warns, open_views, made_views, io_calls>>

----------------------------------------------------------------------------
(* Control is back with the caller, with the value returned or the         *)
(* exception raised; the caller goes on to its next call.  Nothing of the  *)
(* finished call stays behind but what it left in the caller's objects.    *)

CallerResumes ==
    /\ pc \in {"returned", "raised"}
    /\ pc' = "idle"
    /\ call' = NoCall /\ loc' = NoLocals /\ rd' = NoFrame
    /\ vrt_params' = EmptyDict
    /\ raw' = NoArray /\ data' = NoArray /\ mask' = NoArray
    /\ result' = NoResult /\ error' = "" /\ warns' = {}
    /\ made_views' = 0 /\ io_calls' = 0
    /\ UNCHANGED <<ds, caller_opts, open_views>>

----------------------------------------------------------------------------
(* The inputs the calls are drawn from                                     *)

NPix == 2        \* pixels per array
MaxDim == 15     \* largest native height / width and max_size of a preview

CRSs == {"A", "B"}

Dataset(height, width, nodata, alpha) ==
    [crs |-> "A", bounds |-> <<10, 10, 20, 20>>, res |-> 1,
     height |-> height, width |-> width, nodata |-> nodata, alpha |-> alpha,
     count |-> IF alpha THEN 2 ELSE 1, scale |-> 2, offset |-> 3]

Datasets == {Dataset(10, 10, nd, al) : nd \in {None, 0}, al \in BOOLEAN}

PreviewDatasets ==
    {Dataset(h, w, nd, FALSE) : h \in 1..MaxDim, w \in 1..MaxDim, nd \in {None}}
    \cup {Dataset(MaxDim, MaxDim, 0, FALSE)}

\* what the view may hold: raw alpha band values, dataset mask values
AlphaArrays == [1..NPix -> {0, 7, 256}]
MaskArrays == [1..NPix -> {0, 7, 255}]
OneAlphaArray == {[i \in 1..NPix |-> IF i = 1 THEN 0 ELSE 255]}

PostProcs == {"none", "identity", "double", "halve_mask"}

OptsSet ==
    {EmptyDict, [add_alpha |-> TRUE], [add_alpha |-> FALSE], [nodata |-> 0],
     [resampling |-> "bilinear"]}

Kw(fb, nd, us, pp) ==
    [indexes |-> <<>>, force_binary_mask |-> fb, nodata |-> nd, unscale |-> us,
     resampling_method |-> "nearest", post_process |-> pp]

DefaultKw == Kw(TRUE, None, FALSE, "none")

KwSet == {Kw(fb, nd, us, pp) : fb \in BOOLEAN, nd \in {None, 0},
                               us \in BOOLEAN, pp \in PostProcs}

KwSmall == {Kw(fb, None, FALSE, pp) : fb \in BOOLEAN, pp \in PostProcs}

KwNodata == {Kw(TRUE, nd, FALSE, "none") : nd \in {None, 0}}

ReadCall(h, w, k, o) == [height |-> h, width |-> w, kw |-> k, vrt_options |-> o]

ReadArgs ==
    {ReadCall(hw[1], hw[2], k, EmptyDict) :
        hw \in {<<None, None>>, <<4, 6>>}, k \in KwSet}
    \cup {ReadCall(None, None, k, o) : k \in KwNodata, o \in OptsSet}

NoOverlap == <<None, 1>>

PartCall(b, h, w, pad, al, dc, bc, mo, sh, o, ms, k) ==
    [bounds |-> b, height |-> h, width |-> w, padding |-> pad, aligned |-> al,
     dst_crs |-> dc, bounds_crs |-> bc, minimum_overlap |-> mo, shared |-> sh,
     vrt_options |-> o, max_size |-> ms, kw |-> k]

\* requested bounds: left < right and bottom < top
Boxes ==
    {bx \in {5, 10, 20} \X {5, 10} \X {10, 20, 25} \X {10, 20} :
        bx[1] < bx[3] /\ bx[2] < bx[4]}

Thresholds == {NoOverlap, <<0, 1>>, <<1, 3>>, <<1, 2>>, <<2, 3>>, <<1, 1>>}

PartArgsOverlap ==
    {PartCall(b, None, None, 0, TRUE, cc[1], cc[2], mo, FALSE, EmptyDict, None,
              DefaultKw) :
        b \in Boxes, mo \in Thresholds,
        cc \in {<<NoCRS, NoCRS>>, <<"B", "A">>, <<"B", NoCRS>>}}

PartArgsSizing ==
    {PartCall(b, h, w, pa[1], pa[2], NoCRS, NoCRS, NoOverlap, FALSE, EmptyDict,
              ms, DefaultKw) :
        b \in {<<10, 10, 20, 20>>, <<10, 10, 20, 15>>, <<5, 5, 18, 20>>},
        h \in {None, 4}, w \in {None, 6}, ms \in {None, 3, 8, 16},
        pa \in {<<0, TRUE>>, <<1, FALSE>>, <<1, TRUE>>}}

PartArgsOptions ==
    {PartCall(<<10, 10, 20, 20>>, None, None, 0, TRUE, NoCRS, NoCRS, NoOverlap,
              FALSE, ok[1], None, ok[2]) :
        ok \in (OptsSet \X KwNodata) \cup ({EmptyDict} \X KwSmall)}

PartArgs == PartArgsOverlap \cup PartArgsSizing \cup PartArgsOptions

PartArgsShared ==
    {PartCall(b, None, None, 0, TRUE, dc, NoCRS, mo, TRUE, EmptyDict, None,
              DefaultKw) :
        b \in {<<10, 10, 20, 20>>, <<10, 10, 15, 15>>, <<60, 60, 70, 70>>},
        dc \in {NoCRS, "B"}, mo \in {NoOverlap, <<1, 1>>}}

CallerOptsSet == {EmptyDict, [resampling |-> "bilinear"]}

PreviewCall(ms, h, w, k, o) ==
    [max_size |-> ms, height |-> h, width |-> w, kw |-> k, vrt_options |-> o]

PreviewArgs ==
    {PreviewCall(ms, hw[1], hw[2], k, EmptyDict) :
        ms \in {4, 10, 16},
        hw \in {<<None, None>>, <<3, None>>, <<None, 5>>, <<3, 5>>},
        k \in KwSmall}

PreviewArgsWide ==
    {PreviewCall(ms, None, None, DefaultKw, EmptyDict) : ms \in 1..MaxDim}

PointCall(xy, c, m, nd, us, o, pp) ==
    [coordinates |-> xy, indexes |-> <<>>, coord_crs |-> c, masked |-> m,
     nodata |-> nd, unscale |-> us, resampling_method |-> "nearest",
     vrt_options |-> o, post_process |-> pp]

PointArgsBounds ==
    {PointCall(<<x + CRSOffset(c), y + CRSOffset(c)>>, c, TRUE, None, FALSE,
               EmptyDict, "none") :
        x \in {5, 10, 15, 20, 25}, y \in {5, 10, 15, 20, 25}, c \in CRSs}

PointArgsOptions ==
    {PointCall(<<15, 15>>, "A", m, nd, us, EmptyDict, pp) :
        m \in BOOLEAN, nd \in {None, 0}, us \in BOOLEAN, pp \in PostProcs}
    \cup {PointCall(<<15, 15>>, "A", TRUE, nd, FALSE, o, "none") :
              nd \in {None, 0}, o \in OptsSet}

PointArgs == PointArgsBounds \cup PointArgsOptions

----------------------------------------------------------------------------
(* Specifications                                                          *)

InitWith(datasets, opts) ==
    /\ ds \in datasets
    /\ caller_opts \in opts
    /\ pc = "idle"
    /\ call = NoCall
    /\ loc = NoLocals
    /\ rd = NoFrame
    /\ vrt_params = EmptyDict
    /\ raw = NoArray /\ data = NoArray /\ mask = NoArray
    /\ result = NoResult
    /\ error = ""
    /\ warns = {}
    /\ open_views = 0 /\ made_views = 0 /\ io_calls = 0

\* any sequence of read, part, preview and point calls on one dataset
Init == InitWith(Datasets, {EmptyDict})

Next ==
    \/ \E a \in ReadArgs : CallRead(a)
    \/ \E a \in PartArgs : CallPart(a)
    \/ \E a \in PreviewArgs : CallPreview(a)
    \/ \E a \in PointArgs : CallPoint(a)
    \/ OpenView
    \/ ReadBands(AlphaArrays)
    \/ DatasetMask(MaskArrays)
    \/ FinishView
    \/ ReadReturn
    \/ PointOpenView
    \/ Sample
    \/ PointReturn
    \/ CallerResumes

Spec == Init /\ [][Next]_vars

\* previews of datasets of every native size up to MaxDim
InitPreview == InitWith(PreviewDatasets, {EmptyDict})

NextPreview ==
    \/ \E a \in PreviewArgsWide : CallPreview(a)
    \/ OpenView
    \/ ReadBands(OneAlphaArray)
    \/ DatasetMask(OneAlphaArray)
    \/ FinishView
    \/ ReadReturn
    \/ CallerResumes

SpecPreview == InitPreview /\ [][NextPreview]_vars

\* a caller that keeps one vrt_options mapping and passes it to every part
InitShared == InitWith(Datasets, CallerOptsSet)

NextShared ==
    \/ \E a \in PartArgsShared : CallPart(a)
    \/ OpenView
    \/ ReadBands(OneAlphaArray)
    \/ DatasetMask(OneAlphaArray)
    \/ FinishView
    \/ ReadReturn
    \/ CallerResumes

SpecShared == InitShared /\ [][NextShared]_vars

----------------------------------------------------------------------------
(* Properties                                                              *)

ReadFamily == {"read", "part", "preview"}

IsBinary(m) == \A i \in DOMAIN m : m[i] \in {0, 255}

\* area of the rectangular intersection of two boxes
RectIntersectionArea(p, q) ==
    IF p[3] <= q[1] \/ q[3] <= p[1] \/ p[4] <= q[2] \/ q[4] <= p[2]
    THEN 0
    ELSE (Min(p[3], q[3]) - Max(p[1], q[1])) * (Min(p[4], q[4]) - Max(p[2], q[2]))

\* intersection / requested area < num / den, in exact arithmetic
CoverBelow(src_bounds, bounds, mo) ==
    RectIntersectionArea(src_bounds, bounds) * mo[2]
        < mo[1] * (bounds[3] - bounds[1]) * (bounds[4] - bounds[2])

\* C1: with minimum_overlap supplied, part raises TileOutsideBounds exactly
\* when the cover ratio (intersection area of the dataset bounds in dst_crs
\* with the requested bounds, over the requested area) is below it; with no
\* threshold supplied it never raises TileOutsideBounds.
C1_OverlapThreshold ==
    call.op = "part" =>
        IF call.args.minimum_overlap[1] # None
        THEN (error = "TileOutsideBounds")
                 <=> CoverBelow(loc.src_bounds, loc.bounds,
                                call.args.minimum_overlap)
        ELSE error # "TileOutsideBounds"

\* a partly covered tile was rejected
C1_Witness ==
    /\ call.op = "part" /\ error = "TileOutsideBounds"
    /\ RectIntersectionArea(loc.src_bounds, loc.bounds) > 0

\* C2 as stated: with force_binary_mask, whatever the other options and the
\* post_process transform, every value of the returned mask is 0 or 255.
C2_ReturnedMaskBinary ==
    (call.op \in ReadFamily /\ pc = "returned" /\ rd.force_binary_mask)
        => IsBinary(result.mask)

\* C2 amended: with force_binary_mask every value of the mask is 0 or 255
\* when it is handed to post_process, and every value of the returned mask
\* is 0 or 255 when no post_process is given.
C2_BinaryBeforePostProcess ==
    (call.op \in ReadFamily /\ rd.force_binary_mask) =>
        /\ pc = "post_process" => IsBinary(mask)
        /\ (pc = "returned" /\ rd.post_process = "none") => IsBinary(result.mask)

\* a mask value that was neither 0 nor 255 came back binarized
C2_Witness ==
    /\ call.op \in ReadFamily /\ rd.force_binary_mask
    /\ pc = "returned" /\ rd.post_process = "none"
    /\ \E i \in DOMAIN raw : raw[i] \notin {0, 255}

ParamsConflict(p) ==
    /\ "add_alpha" \in DOMAIN p /\ p.add_alpha = TRUE
    /\ "nodata" \in DOMAIN p

\* C3 as stated: whatever the dataset nodata, the nodata override, the
\* alpha band and the caller's vrt_options, the parameters handed to the
\* view never have add_alpha = true together with a nodata value.
C3_NeverAlphaAndNodata ==
    vrt_params # EmptyDict => ~ParamsConflict(vrt_params)

\* C3 amended: the same, for every caller-supplied vrt_options that sets
\* neither add_alpha nor nodata.
C3_NoConflictWithoutOverride ==
    (/\ vrt_params # EmptyDict
     /\ DOMAIN call.args.vrt_options \cap {"add_alpha", "nodata"} = {})
        => ~ParamsConflict(vrt_params)

\* nodata and a source alpha band together, with an unrelated override
C3_Witness ==
    /\ pc \in {"WarpedVRT", "point.WarpedVRT"}
    /\ ds.alpha /\ ds.nodata # None
    /\ call.args.vrt_options = [resampling |-> "bilinear"]
    /\ "nodata" \in DOMAIN vrt_params /\ vrt_params.add_alpha = FALSE

\* C4: in part an explicit height is the output height and an explicit
\* width the output width handed to read, and the max_size clamp changes
\* the output size only when neither height nor width was given.
C4_ExplicitSizeKept ==
    (call.op = "part" /\ pc = "WarpedVRT") =>
        /\ Truthy(call.args.height) => rd.height = call.args.height
        /\ Truthy(call.args.width) => rd.width = call.args.width
        /\ loc.clamped => (~Truthy(call.args.height) /\ ~Truthy(call.args.width))

CeilDiv(a, b) == (a + b - 1) \div b

\* C5: preview without height and width hands the native size (H, W) to
\* read when max(H, W) fits under max_size; otherwise the longer axis is
\* max_size and the shorter one ceil(max_size * shorter / longer); neither
\* output dimension exceeds max_size.
C5_PreviewSize ==
    (/\ call.op = "preview" /\ pc = "WarpedVRT"
     /\ ~Truthy(call.args.height) /\ ~Truthy(call.args.width)) =>
        LET m == call.args.max_size
        IN  /\ rd.height <= m /\ rd.width <= m
            /\ IF Max(ds.height, ds.width) < m
               THEN rd.height = ds.height /\ rd.width = ds.width
               ELSE IF ds.height > ds.width
               THEN rd.height = m /\ rd.width = CeilDiv(m * ds.width, ds.height)
               ELSE rd.width = m /\ rd.height = CeilDiv(m * ds.height, ds.width)

\* C6: point raises PointOutsideBounds exactly when the coordinate, in the
\* dataset's CRS, is on an edge of the bounds or outside them on either
\* axis.
C6_PointStrictlyInside ==
    call.op = "point" =>
        LET x == transform_coords(call.args.coord_crs, ds.crs,
                                  call.args.coordinates[1])
            y == transform_coords(call.args.coord_crs, ds.crs,
                                  call.args.coordinates[2])
        IN  (error = "PointOutsideBounds")
                <=> \/ x <= ds.bounds[1] \/ x >= ds.bounds[3]
                    \/ y <= ds.bounds[2] \/ y >= ds.bounds[4]

\* a point on the left edge, within the vertical extent, was rejected
C6_Witness ==
    /\ call.op = "point" /\ error = "PointOutsideBounds"
    /\ transform_coords(call.args.coord_crs, ds.crs, call.args.coordinates[1])
           = ds.bounds[1]
    /\ transform_coords(call.args.coord_crs, ds.crs, call.args.coordinates[2])
           > ds.bounds[2]
    /\ transform_coords(call.args.coord_crs, ds.crs, call.args.coordinates[2])
           < ds.bounds[4]

\* C7: the mask point hands to post_process is, per band, 255 where the
\* sample is valid and 0 where it is not when masked is on, and 0 for every
\* band when masked is off.  (raw is the sample's numpy mask: TRUE = not
\* valid.)
C7_PointMaskValidity ==
    (call.op = "point" /\ pc = "point.post_process") =>
        \A i \in DOMAIN mask :
            mask[i] = IF rd.masked THEN (IF ~raw[i] THEN 255 ELSE 0) ELSE 0

ViewPlaces == {"vrt.read", "vrt.dataset_mask", "in_view", "vrt.sample"}

\* C8: a warped view is open only between its construction and the end of
\* the with block of the same call: none is open when a call has returned
\* or raised, or when the next one starts.
C8_ViewScopedToCall ==
    /\ open_views = IF pc \in ViewPlaces THEN 1 ELSE 0
    /\ pc \in {"idle", "returned", "raised"} => open_views = 0

\* a call failed inside the with block, after its view was built and used
C8_Witness ==
    /\ pc = "raised" /\ error = "CollaboratorFailure"
    /\ made_views = 1 /\ io_calls > 0

\* C9: a part that raises TileOutsideBounds and a point that raises
\* PointOutsideBounds have built no view, issued no read, dataset mask or
\* sample, and return nothing.
C9_FailFast ==
    error \in {"TileOutsideBounds", "PointOutsideBounds"} =>
        /\ pc = "raised"
        /\ made_views = 0 /\ io_calls = 0 /\ open_views = 0
        /\ result = NoResult

C9_Witness ==
    /\ pc = "raised" /\ error = "PointOutsideBounds" /\ call.op = "point"

\* C10: part leaves the caller's vrt_options mapping as it was.
C10_CallerOptionsUnchanged == [][caller_opts' = caller_opts]_vars

====
